---- MODULE Spec2Model ----
(***************************************************************************)
(* Room booking server (backend/server.js): the persisted room list, the   *)
(* in-memory auto-release timer table, lazy expiry on reads and the        *)
(* request handlers book / extend / release / list / getRoom.              *)
(*                                                                         *)
(* A JavaScript object is a function whose DOMAIN is its set of own keys:  *)
(* `delete o.k` removes k from the domain, a missing key reads as          *)
(* undefined.  A string that the code parses or trims is a sequence of     *)
(* one-character strings.  Time is the wall clock Date.now() in ms.        *)
(***************************************************************************)
EXTENDS Integers, Sequences, FiniteSets, TLC

VARIABLES
    store,              \* rooms.json: the persisted array of room objects
    autoReleaseTimers,  \* Map roomId -> timer handle
    timers,             \* timers armed by setTimeout and neither fired nor cleared
    now,                \* Date.now()
    running,            \* the server process is up
    readable,           \* rooms.json can be read and parsed
    req,                \* the request served in the current event-loop turn
    pre,                \* the persisted room the turn addressed, as it was before
    resp                \* the response the turn sent

vars == <<store, autoReleaseTimers, timers, now, running, readable, req, pre, resp>>

(*************************** bounds of the model ***************************)
MaxTime == 3        \* the clock stops after MaxTime minutes
MaxEnd == 3         \* no booking is made or extended past MaxEnd minutes

(***************************** program constants ***************************)
MsPerMinute == 60 * 1000

(***************************** JavaScript objects **************************)
Has(o, k) == k \in DOMAIN o

Delete(o, k) == [x \in DOMAIN o \ {k} |-> o[x]]

Put(o, k, v) == [x \in DOMAIN o \cup {k} |-> IF x = k THEN v ELSE o[x]]

\* the value of rooms.find(pred): the index of the first match, 0 when none
RECURSIVE FindFrom(_, _, _)
FindFrom(rooms, id, i) ==
    IF i > Len(rooms) THEN 0
    ELSE IF rooms[i].id = id THEN i
    ELSE FindFrom(rooms, id, i + 1)

Find(rooms, id) == FindFrom(rooms, id, 1)

(******************************* parseInt(s, 10) ***************************)
Digits == <<"0", "1", "2", "3", "4", "5", "6", "7", "8", "9">>

IsDigit(c) == \E d \in 1..10 : Digits[d] = c

DigitVal(c) == (CHOOSE d \in 1..10 : Digits[d] = c) - 1

NaN == [isInt |-> FALSE, val |-> 0]

Int32(n) == [isInt |-> TRUE, val |-> n]

RECURSIVE SkipSpace(_)
SkipSpace(s) ==
    IF s # <<>> /\ Head(s) = " " THEN SkipSpace(Tail(s)) ELSE s

\* value of the longest prefix of digits of s, given the value acc read so far
RECURSIVE DigitsValue(_, _)
DigitsValue(s, acc) ==
    IF s # <<>> /\ IsDigit(Head(s))
    THEN DigitsValue(Tail(s), acc * 10 + DigitVal(Head(s)))
    ELSE acc

ParseInt(raw) ==
    LET s    == SkipSpace(raw)
        neg  == s # <<>> /\ Head(s) = "-"
        body == IF s # <<>> /\ Head(s) \in {"-", "+"} THEN Tail(s) ELSE s
    IN  IF body = <<>> \/ ~IsDigit(Head(body)) THEN NaN
        ELSE Int32(IF neg THEN 0 - DigitsValue(body, 0) ELSE DigitsValue(body, 0))

IsInteger(x) == x.isInt

(****************************** String.trim() ******************************)
RECURSIVE TrimEnd(_)
TrimEnd(s) ==
    IF s # <<>> /\ s[Len(s)] = " " THEN TrimEnd(SubSeq(s, 1, Len(s) - 1)) ELSE s

Trim(s) == TrimEnd(SkipSpace(s))

\* typeof v === "string" && v.trim() is truthy
IsNonBlankString(v) == v.type = "string" /\ Trim(v.chars) # <<>>

(******************************* room records ******************************)
AvailableRoom(id) == [id |-> id, name |-> "Room", status |-> "Available"]

InitRooms == <<AvailableRoom(1), AvailableRoom(2)>>

\* r.endTime as a condition: defined and not 0
EndTimeTruthy(r) == Has(r, "endTime") /\ r.endTime # 0

\* Vacate that forgets `delete r.bookingCode`
VacateKeepsCode(r) ==
    Delete(Delete(Delete(Put(r, "status", "Available"),
        "bookedBy"), "purpose"), "endTime")

\* the four deletes and the status reset shared by every expiry and by release
Vacate(r) ==
    Delete(Delete(Delete(Delete(Put(r, "status", "Available"),
        "bookedBy"), "purpose"), "endTime"), "bookingCode")

\* sanitizeRoom that returns the room as stored
sanitizeRoomLeaks(room) == room

sanitizeRoom(room) == Delete(room, "bookingCode")

\* expireRoomsIfNeeded with `now > r.endTime`
expireRoomsLate(rooms, t) ==
    [i \in 1..Len(rooms) |->
        IF EndTimeTruthy(rooms[i]) /\ t > rooms[i].endTime
        THEN Vacate(rooms[i])
        ELSE rooms[i]]

\* expireRoomsIfNeeded that stops after the first room of the list
expireRoomsFirstOnly(rooms, t) ==
    [i \in 1..Len(rooms) |->
        IF i = 1 /\ EndTimeTruthy(rooms[i]) /\ t >= rooms[i].endTime
        THEN Vacate(rooms[i])
        ELSE rooms[i]]

expireRoomsIfNeeded(rooms, t) ==
    [i \in 1..Len(rooms) |->
        IF EndTimeTruthy(rooms[i]) /\ t >= rooms[i].endTime
        THEN Vacate(rooms[i])
        ELSE rooms[i]]

(********************************* timers **********************************)
NoTimers == [x \in {} |-> 0]

\* a timer handle: the room and due time setTimeout was called for, and a
\* number n telling it from the other live handles of that room and due time
NewHandle(ts, table, roomId, fireAt) ==
    LET live == ts \cup {table[k] : k \in DOMAIN table}
    IN  [roomId |-> roomId, fireAt |-> fireAt,
         n |-> CHOOSE n \in 1..(Cardinality(live) + 1) :
                  /\ [roomId |-> roomId, fireAt |-> fireAt, n |-> n] \notin live
                  /\ \A k \in 1..(n - 1) :
                        [roomId |-> roomId, fireAt |-> fireAt, n |-> k] \in live]

clearTimeout(ts, h) == ts \ {h}

\* scheduleAutoRelease(roomId) run on the machine state m at time t
scheduleAutoRelease(m, roomId, t) ==
    LET had   == roomId \in DOMAIN m.table
        ts1   == IF had THEN clearTimeout(m.timers, m.table[roomId]) ELSE m.timers
        tab1  == IF had THEN Delete(m.table, roomId) ELSE m.table
        rooms == m.rooms
        i     == Find(rooms, roomId)
        m1    == [rooms |-> rooms, table |-> tab1, timers |-> ts1]
    IN  IF i = 0 \/ rooms[i].status # "Occupied" \/ ~EndTimeTruthy(rooms[i])
        THEN m1
        ELSE LET delay == rooms[i].endTime - t
             IN  IF delay <= 0
                 THEN [m1 EXCEPT !.rooms = [rooms EXCEPT ![i] = Vacate(rooms[i])]]
                 ELSE LET h == NewHandle(ts1, tab1, roomId, t + delay)
                      IN  [rooms  |-> rooms,
                           timers |-> ts1 \cup {h},
                           table  |-> Put(tab1, roomId, h)]

\* a callback that expires its room without comparing Date.now() with endTime
TimerCallbackEager(m, h, t) ==
    LET i == Find(m.rooms, h.roomId)
    IN  [rooms  |-> IF i # 0 /\ m.rooms[i].status = "Occupied"
                    THEN [m.rooms EXCEPT ![i] = Vacate(m.rooms[i])]
                    ELSE m.rooms,
         timers |-> m.timers \ {h},
         table  |-> Delete(m.table, h.roomId)]

\* a callback that forgets its room and expires nothing
TimerCallbackForgets(m, h, t) ==
    [m EXCEPT !.timers = m.timers \ {h}, !.table = Delete(m.table, h.roomId)]

\* the setTimeout callback of handle h, run at time t
TimerCallback(m, h, t) ==
    LET roomId == h.roomId
        m0     == [m EXCEPT !.timers = m.timers \ {h}]
        i      == Find(m0.rooms, roomId)
        m1     == IF i # 0 /\ m0.rooms[i].status = "Occupied" /\ EndTimeTruthy(m0.rooms[i])
                  THEN IF t >= m0.rooms[i].endTime
                       THEN [m0 EXCEPT !.rooms[i] = Vacate(m0.rooms[i])]
                       ELSE scheduleAutoRelease(m0, roomId, t)
                  ELSE m0
    IN  [m1 EXCEPT !.table = Delete(m1.table, roomId)]

\* a start-up block that arms no timer
RescheduleNothing(m, rooms, i, t) == m

\* rooms.forEach of the start-up block, over the rooms read once at start
RECURSIVE Reschedule(_, _, _, _)
Reschedule(m, rooms, i, t) ==
    IF i > Len(rooms) THEN m
    ELSE IF rooms[i].status = "Occupied" /\ EndTimeTruthy(rooms[i])
         THEN Reschedule(scheduleAutoRelease(m, rooms[i].id, t), rooms, i + 1, t)
         ELSE Reschedule(m, rooms, i + 1, t)

\* readRooms with a store that always reads as the seed
readRoomsSeeds(rooms, ok) == IF ok THEN rooms ELSE InitRooms

\* readRooms: the parsed file, or [] when reading or parsing it throws
readRooms(rooms, ok) == IF ok THEN rooms ELSE <<>>

Machine ==
    [rooms |-> readRooms(store, readable), table |-> autoReleaseTimers, timers |-> timers]

\* the file is written by the turns that changed the list they read:
\* writeRooms follows a transition, or lazy expiry's changed flag
Install(m) ==
    /\ store' = IF m.rooms = Machine.rooms THEN store ELSE m.rooms
    /\ autoReleaseTimers' = m.table
    /\ timers' = m.timers

(***************************** request inputs ******************************)
\* req.params.id / body.roomId as sent: rooms 1 and 2, an unknown room, not a number
RawIds == {<<"1">>, <<"2">>, <<"3">>, <<"x">>}

\* body.duration / body.extraMinutes as sent: 1, 2, 0, -1, 1.5, not a number
RawMinutes == {<<"1">>, <<"2">>, <<"0">>, <<"-", "1">>, <<"1", ".", "5">>, <<"x">>}

\* body.studentName as sent: padded, blank, not a string
RawNames == {[type |-> "string", chars |-> <<" ", "a", " ">>],
             [type |-> "string", chars |-> <<" ">>],
             [type |-> "undefined", chars |-> <<>>]}

\* body.purpose as sent: a word, empty
RawPurposes == {[type |-> "string", chars |-> <<"p">>],
                [type |-> "string", chars |-> <<>>]}

\* values crypto.randomBytes(4).toString("hex") can return
Codes == {"0a1b2c3d", "deadbeef"}

\* body.bookingCode as sent: a code, or missing
SentCodes == Codes \cup {""}

NoRoom == <<>>

NoValue == [type |-> "undefined", chars |-> <<>>]

\* the last request as sent: operation, id, booking code, minutes, texts
Request(op, id, code, minutes, name, purpose) ==
    [op |-> op, id |-> id, code |-> code, minutes |-> minutes,
     studentName |-> name, purpose |-> purpose]

\* a turn that serves no request: timer callback, process start
Internal(op) == Request(op, <<>>, "", <<>>, NoValue, NoValue)

Response(status, body, t) == [status |-> status, body |-> body, at |-> t]

NoResponse == Response(0, <<>>, 0)

\* the persisted room with this id, before the step
Stored(id) ==
    IF IsInteger(id) /\ Find(store, id.val) # 0 THEN store[Find(store, id.val)] ELSE NoRoom

\* the step stays inside the bounds of the model
Within(m) ==
    \A i \in 1..Len(m.rooms) :
          Has(m.rooms[i], "endTime") => m.rooms[i].endTime <= MaxEnd * MsPerMinute

(****************************** the event loop *****************************)
\* handlers and callbacks run to completion, one per turn of the event loop;
\* between turns the loop of the running process is idle
Idle == running /\ req.op = "idle"

\* the handler or callback returns: the turn is over
TurnEnds ==
    /\ running
    /\ req.op # "idle"
    /\ req' = Internal("idle")
    /\ pre' = NoRoom
    /\ resp' = NoResponse
    /\ UNCHANGED <<store, autoReleaseTimers, timers, now, running, readable>>

\* the clock advances between turns
Tick ==
    /\ Idle
    /\ now < MaxTime * MsPerMinute
    /\ now' = now + MsPerMinute
    /\ UNCHANGED <<store, autoReleaseTimers, timers, running, readable, req, pre, resp>>

(***************************** POST /api/book ******************************)
\* a book handler without the "Room already booked" check
AlreadyBookedNever(room) == FALSE

\* room.status === "Occupied"
AlreadyBooked(room) == room.status = "Occupied"

\* Date.now() + duration * 60 * 1000
BookedEndTime(t, duration) == t + duration * MsPerMinute

\* the handler's result: the machine state it leaves and the response it sends
BookResult(m, rawId, studentName, purpose, rawDuration, bookingCode, t) ==
    LET roomId   == ParseInt(rawId)
        duration == ParseInt(rawDuration)
        rooms    == expireRoomsIfNeeded(m.rooms, t)
        i        == Find(rooms, roomId.val)
        expired  == [m EXCEPT !.rooms = rooms]
    IN  IF ~IsInteger(roomId) \/ ~IsInteger(duration) \/ duration.val <= 0
        THEN [m |-> m, resp |-> Response(400, [message |-> "Invalid roomId or duration"], t)]
        ELSE IF ~IsNonBlankString(studentName) \/ ~IsNonBlankString(purpose)
        THEN [m |-> m, resp |-> Response(400, [message |-> "Invalid studentName or purpose"], t)]
        ELSE IF i = 0
        THEN [m |-> expired, resp |-> Response(404, [message |-> "Room not found"], t)]
        ELSE IF AlreadyBooked(rooms[i])
        THEN [m |-> expired, resp |-> Response(400, [message |-> "Room already booked"], t)]
        ELSE LET endTime == BookedEndTime(t, duration.val)
                 room    == Put(Put(Put(Put(Put(rooms[i],
                                "status", "Occupied"),
                                "bookedBy", Trim(studentName.chars)),
                                "purpose", Trim(purpose.chars)),
                                "endTime", endTime),
                                "bookingCode", bookingCode)
                 written == [m EXCEPT !.rooms = [rooms EXCEPT ![i] = room]]
             IN  [m    |-> scheduleAutoRelease(written, roomId.val, t),
                  resp |-> Response(200,
                              [message |-> "Room booked successfully! Save your booking code.",
                               room |-> sanitizeRoom(room),
                               bookingCode |-> bookingCode], t)]

Book(rawId, studentName, purpose, rawDuration, bookingCode) ==
    LET r == BookResult(Machine, rawId, studentName, purpose, rawDuration, bookingCode, now)
    IN  /\ Idle
        /\ Within(r.m)
        /\ Install(r.m)
        /\ req' = Request("book", rawId, "", rawDuration, studentName, purpose)
        /\ pre' = Stored(ParseInt(rawId))
        /\ resp' = r.resp
        /\ UNCHANGED <<now, running, readable>>

(************************* POST /api/room/:id/release **********************)
\* handlers without the "not occupied" check
NotOccupiedNever(room) == FALSE

\* room.status !== "Occupied"
NotOccupied(room) == room.status # "Occupied"

\* handlers without the booking code check
CodeMatchesAlways(room, bookingCode) == TRUE

\* room.bookingCode !== bookingCode, negated; a missing stored code is undefined
CodeMatches(room, bookingCode) ==
    Has(room, "bookingCode") /\ room.bookingCode = bookingCode

\* the list a handler would hold had it read the store before the other
\* rooms' bookings were written
StaleRead(rooms, id) ==
    [i \in 1..Len(rooms) |->
        IF rooms[i].id = id THEN rooms[i] ELSE AvailableRoom(rooms[i].id)]

\* const rooms = readRooms()
FreshRead(rooms, id) == rooms

ReleaseResult(m, rawId, bookingCode, t) ==
    LET id    == ParseInt(rawId)
        rooms == FreshRead(m.rooms, id.val)
        i     == IF IsInteger(id) THEN Find(rooms, id.val) ELSE 0
    IN  IF bookingCode = ""
        THEN [m |-> m, resp |-> Response(400, [message |-> "bookingCode required"], t)]
        ELSE IF i = 0
        THEN [m |-> m, resp |-> Response(404, [message |-> "Room not found"], t)]
        ELSE IF NotOccupied(rooms[i])
        THEN [m |-> m, resp |-> Response(400, [message |-> "Room is not occupied"], t)]
        ELSE IF ~CodeMatches(rooms[i], bookingCode)
        THEN [m |-> m, resp |-> Response(403, [message |-> "Invalid booking code"], t)]
        ELSE LET room == Vacate(rooms[i])
                 had  == id.val \in DOMAIN m.table
             IN  [m    |-> [rooms  |-> [rooms EXCEPT ![i] = room],
                            timers |-> IF had THEN clearTimeout(m.timers, m.table[id.val])
                                       ELSE m.timers,
                            table  |-> IF had THEN Delete(m.table, id.val) ELSE m.table],
                  resp |-> Response(200, [message |-> "Room released successfully",
                                          room |-> sanitizeRoom(room)], t)]

Release(rawId, bookingCode) ==
    LET r == ReleaseResult(Machine, rawId, bookingCode, now)
    IN  /\ Idle
        /\ Install(r.m)
        /\ req' = Request("release", rawId, bookingCode, <<>>, NoValue, NoValue)
        /\ pre' = Stored(ParseInt(rawId))
        /\ resp' = r.resp
        /\ UNCHANGED <<now, running, readable>>

(************************* POST /api/room/:id/extend ***********************)
\* an extension counted in seconds
ExtendedEndTimeSeconds(endTime, extraMinutes) == endTime + extraMinutes * 1000

\* room.endTime += extraMinutes * 60 * 1000
ExtendedEndTime(endTime, extraMinutes) == endTime + extraMinutes * MsPerMinute

\* the message `Extended by ${extraMinutes} minutes` is kept as its two parts
ExtendResult(m, rawId, bookingCode, rawMinutes, t) ==
    LET id           == ParseInt(rawId)
        extraMinutes == ParseInt(rawMinutes)
        rooms        == expireRoomsIfNeeded(m.rooms, t)
        i            == IF IsInteger(id) THEN Find(rooms, id.val) ELSE 0
        expired      == [m EXCEPT !.rooms = rooms]
    IN  IF bookingCode = ""
        THEN [m |-> m, resp |-> Response(400, [message |-> "bookingCode required"], t)]
        ELSE IF ~IsInteger(extraMinutes) \/ extraMinutes.val <= 0
        THEN [m |-> m, resp |-> Response(400,
                  [message |-> "extraMinutes must be a positive integer"], t)]
        ELSE IF i = 0
        THEN [m |-> expired, resp |-> Response(404, [message |-> "Room not found"], t)]
        ELSE IF NotOccupied(rooms[i]) \/ ~EndTimeTruthy(rooms[i])
        THEN [m |-> expired, resp |-> Response(400,
                  [message |-> "Room is not currently occupied"], t)]
        ELSE IF ~CodeMatches(rooms[i], bookingCode)
        THEN [m |-> expired, resp |-> Response(403, [message |-> "Invalid booking code"], t)]
        ELSE LET room    == Put(rooms[i], "endTime",
                                ExtendedEndTime(rooms[i].endTime, extraMinutes.val))
                 written == [m EXCEPT !.rooms = [rooms EXCEPT ![i] = room]]
             IN  [m    |-> scheduleAutoRelease(written, id.val, t),
                  resp |-> Response(200, [message |-> "Extended",
                                          minutes |-> extraMinutes.val,
                                          room |-> sanitizeRoom(room)], t)]

Extend(rawId, bookingCode, rawMinutes) ==
    LET r == ExtendResult(Machine, rawId, bookingCode, rawMinutes, now)
    IN  /\ Idle
        /\ Within(r.m)
        /\ Install(r.m)
        /\ req' = Request("extend", rawId, bookingCode, rawMinutes, NoValue, NoValue)
        /\ pre' = Stored(ParseInt(rawId))
        /\ resp' = r.resp
        /\ UNCHANGED <<now, running, readable>>

(***************************** GET /api/room/:id ***************************)
GetRoomResult(m, rawId, t) ==
    LET id    == ParseInt(rawId)
        rooms == expireRoomsIfNeeded(m.rooms, t)
        i     == IF IsInteger(id) THEN Find(rooms, id.val) ELSE 0
    IN  [m    |-> [m EXCEPT !.rooms = rooms],
         resp |-> IF i = 0 THEN Response(404, [message |-> "Room not found"], t)
                  ELSE Response(200, sanitizeRoom(rooms[i]), t)]

GetRoom(rawId) ==
    LET r == GetRoomResult(Machine, rawId, now)
    IN  /\ Idle
        /\ Install(r.m)
        /\ req' = Request("getRoom", rawId, "", <<>>, NoValue, NoValue)
        /\ pre' = Stored(ParseInt(rawId))
        /\ resp' = r.resp
        /\ UNCHANGED <<now, running, readable>>

(******************************* GET /api/rooms ****************************)
PublicRoom(r) == Put(sanitizeRoom(r), "qr", "data:image/png;base64")

\* read, lazy expiry and write run before the first await; the awaited QR
\* rendering reads and writes nothing and only delays sending the body
\* already fixed by `rooms`, so the handler is one turn
ListRoomsResult(m, t) ==
    LET rooms == expireRoomsIfNeeded(m.rooms, t)
    IN  [m    |-> [m EXCEPT !.rooms = rooms],
         resp |-> Response(200, [i \in 1..Len(rooms) |-> PublicRoom(rooms[i])], t)]

ListRooms ==
    LET r == ListRoomsResult(Machine, now)
    IN  /\ Idle
        /\ Install(r.m)
        /\ req' = Request("list", <<>>, "", <<>>, NoValue, NoValue)
        /\ pre' = NoRoom
        /\ resp' = r.resp
        /\ UNCHANGED <<now, running, readable>>

(****************************** timer callbacks ****************************)
\* a callback runs when its delay has elapsed, or any time later
TimerFires(h) ==
    /\ Idle
    /\ h \in timers
    /\ now >= h.fireAt
    /\ Install(TimerCallback(Machine, h, now))
    /\ req' = Internal("timer")
    /\ pre' = Stored(Int32(h.roomId))
    /\ resp' = NoResponse
    /\ UNCHANGED <<now, running, readable>>

(******************************* process start *****************************)
\* the process starts, after it stopped between two turns or after it
\* crashed: the timers and the timer table are lost, the start-up block
\* reschedules from the persisted rooms
Restart ==
    /\ Idle \/ ~running
    /\ Install(Reschedule([Machine EXCEPT !.table = NoTimers, !.timers = {}],
                          Machine.rooms, 1, now))
    /\ req' = Internal("start")
    /\ pre' = NoRoom
    /\ resp' = NoResponse
    /\ running' = TRUE
    /\ UNCHANGED <<now, readable>>

Init ==
    /\ store = InitRooms
    /\ autoReleaseTimers = NoTimers
    /\ timers = {}
    /\ now = 0
    /\ running = TRUE
    /\ readable = TRUE
    /\ req = Internal("idle")
    /\ pre = NoRoom
    /\ resp = NoResponse

Next ==
    \/ TurnEnds
    \/ Tick
    \/ \E rawId \in RawIds, n \in RawNames, p \in RawPurposes,
          d \in RawMinutes, c \in Codes : Book(rawId, n, p, d, c)
    \/ \E rawId \in RawIds, c \in SentCodes : Release(rawId, c)
    \/ \E rawId \in RawIds, c \in SentCodes, x \in RawMinutes : Extend(rawId, c, x)
    \/ \E rawId \in RawIds : GetRoom(rawId)
    \/ ListRooms
    \/ \E h \in timers : TimerFires(h)
    \/ Restart

Spec == Init /\ [][Next]_vars

(************************** callbacks that run early ***********************)
\* setTimeout counts its delay on the loop's monotonic clock and replaces a
\* delay above 2^31 - 1 ms by 1 ms, while the callback compares the wall
\* clock Date.now() with endTime: a booking of 40000 minutes, or a wall clock
\* set back, runs the callback while Date.now() < endTime

\* the armed timers the timer table does not hold
Orphans == timers \ {autoReleaseTimers[k] : k \in DOMAIN autoReleaseTimers}

MaxOrphans == 1     \* no early callback runs while MaxOrphans timers are orphaned

TimerFiresEarly(h) ==
    /\ Idle
    /\ h \in timers
    /\ now < h.fireAt
    /\ Cardinality(Orphans) < MaxOrphans
    /\ Install(TimerCallback(Machine, h, now))
    /\ req' = Internal("timer")
    /\ pre' = Stored(Int32(h.roomId))
    /\ resp' = NoResponse
    /\ UNCHANGED <<now, running, readable>>

\* the requests of this specification are well formed and address rooms 1 and 2
KnownIds == {<<"1">>, <<"2">>}

WholeMinutes == {<<"1">>, <<"2">>}

SomeName == [type |-> "string", chars |-> <<" ", "a", " ">>]

SomePurpose == [type |-> "string", chars |-> <<"p">>]

SkewNext ==
    \/ TurnEnds
    \/ Tick
    \/ \E rawId \in KnownIds, d \in WholeMinutes :
          Book(rawId, SomeName, SomePurpose, d, "0a1b2c3d")
    \/ \E rawId \in KnownIds, c \in Codes : Release(rawId, c)
    \/ \E rawId \in KnownIds, c \in Codes, x \in WholeMinutes : Extend(rawId, c, x)
    \/ \E rawId \in KnownIds : GetRoom(rawId)
    \/ ListRooms
    \/ \E h \in timers : TimerFires(h)
    \/ \E h \in timers : TimerFiresEarly(h)
    \/ Restart

SkewSpec == Init /\ [][SkewNext]_vars

(********************************* scheduling ******************************)
\* a due callback of room id runs
RoomTimerFires(id) == \E h \in timers : h.roomId = id /\ TimerFires(h)

\* the wall clock advances whatever the server does; a handler or callback
\* returns; the event loop runs a due callback in its next timers phase,
\* however many requests keep arriving
Scheduling ==
    /\ SF_now(Tick)
    /\ WF_req(TurnEnds)
    /\ \A i \in 1..Len(InitRooms) : SF_timers(RoomTimerFires(InitRooms[i].id))

\* the server with well-formed requests and callbacks that run when due; a
\* behaviour may stop receiving requests at any point and may start the
\* process again at any point
LiveNext ==
    \/ TurnEnds
    \/ Tick
    \/ \E rawId \in KnownIds, d \in WholeMinutes :
          Book(rawId, SomeName, SomePurpose, d, "0a1b2c3d")
    \/ \E rawId \in KnownIds, c \in Codes : Release(rawId, c)
    \/ \E rawId \in KnownIds, c \in Codes, x \in WholeMinutes : Extend(rawId, c, x)
    \/ \E rawId \in KnownIds : GetRoom(rawId)
    \/ \E h \in timers : TimerFires(h)
    \/ Restart

LiveSpec == Init /\ [][LiveNext]_vars /\ Scheduling

(******************************* vocabulary ********************************)
OccupancyFields == {"bookedBy", "purpose", "endTime", "bookingCode"}

\* the room is persisted as Occupied with an endTime
Booked(room) == room # NoRoom /\ room.status = "Occupied" /\ EndTimeTruthy(room)

\* the persisted room with the id of `room`, after the step
Current(room) == store[Find(store, room.id)]

\* the timers armed for a room, and the room's entry of the timer table
RoomTimers(ts, id) == {h \in ts : h.roomId = id}

TableEntry(table, id) == IF id \in DOMAIN table THEN {table[id]} ELSE {}

\* the request carries a booking code
CodeSent == req.code # ""

\* the minutes of the request as parseInt reads them
Minutes(r) == ParseInt(r.minutes).val

\* the handler's checks on ids, minutes and texts let the request through
BookWellFormed(r) ==
    /\ IsInteger(ParseInt(r.id))
    /\ IsInteger(ParseInt(r.minutes)) /\ Minutes(r) > 0
    /\ IsNonBlankString(r.studentName) /\ IsNonBlankString(r.purpose)

ExtendWellFormed(r) ==
    /\ r.code # ""
    /\ IsInteger(ParseInt(r.minutes)) /\ Minutes(r) > 0

Conflict(message) == resp.status = 400 /\ resp.body = [message |-> message]

Forbidden == resp.status = 403 /\ resp.body = [message |-> "Invalid booking code"]

\* the room records a response carries
RoomsReturned ==
    IF resp.status # 200 THEN {}
    ELSE IF req.op = "list" THEN {resp.body[i] : i \in DOMAIN resp.body}
    ELSE IF req.op = "getRoom" THEN {resp.body}
    ELSE {resp.body.room}

(********************************** C1 *************************************)
\* C1: every persisted room is either Occupied with bookedBy, purpose, endTime
\* and bookingCode all present, or Available with none of them present.
CoPresence ==
    \A i \in 1..Len(store) :
        \/ store[i].status = "Occupied" /\ OccupancyFields \subseteq DOMAIN store[i]
        \/ store[i].status = "Available" /\ OccupancyFields \cap DOMAIN store[i] = {}

\* a timer callback has just expired one room while another room is booked
CoPresenceWitness ==
    /\ req.op = "timer"
    /\ Booked(pre)
    /\ Current(pre).status = "Available"
    /\ \E i \in 1..Len(store) : store[i].status = "Occupied"

(********************************** C2 *************************************)
\* C2: a release that arrives at now >= endTime for a room still persisted as
\* Occupied answers Conflict "not occupied" whatever code it carries.
ReleaseObservesExpiry ==
    (req.op = "release" /\ CodeSent /\ Booked(pre) /\ resp.at >= pre.endTime)
        => Conflict("Room is not occupied")

(********************************** C3 *************************************)
\* C3: an extend that arrives at now >= endTime for a room still persisted as
\* Occupied answers Conflict "room is not currently occupied", with the right
\* code as well, and the room is Available in the store afterwards.
ExtendObservesExpiry ==
    (req.op = "extend" /\ ExtendWellFormed(req) /\ Booked(pre) /\ resp.at >= pre.endTime)
        => /\ Conflict("Room is not currently occupied")
           /\ Current(pre) = AvailableRoom(pre.id)

\* the owner's extend came after the booking had lapsed and before its timer fired
ExtendObservesExpiryWitness ==
    /\ req.op = "extend" /\ ExtendWellFormed(req)
    /\ Booked(pre) /\ resp.at >= pre.endTime
    /\ req.code = pre.bookingCode
    /\ RoomTimers(timers, pre.id) # {}

(********************************** C4 *************************************)
\* C4: extend or release with a code other than the stored one, on an
\* Occupied room whose endTime has not passed, answers Forbidden and leaves
\* the room's persisted record and its timer as they were.
WrongCodeForbidden ==
    [][(/\ req'.op \in {"extend", "release"}
        /\ req'.op = "extend" => ExtendWellFormed(req')
        /\ req'.code # ""
        /\ Booked(pre') /\ now < pre'.endTime
        /\ req'.code # pre'.bookingCode)
       => /\ resp'.status = 403
          /\ resp'.body = [message |-> "Invalid booking code"]
          /\ store'[Find(store', pre'.id)] = pre'
          /\ RoomTimers(timers', pre'.id) = RoomTimers(timers, pre'.id)
          /\ TableEntry(autoReleaseTimers', pre'.id) = TableEntry(autoReleaseTimers, pre'.id)]_vars

\* a release with the other code was refused while the booking's timer is pending
WrongCodeForbiddenWitness ==
    /\ req.op = "release" /\ CodeSent
    /\ Booked(pre) /\ resp.at < pre.endTime
    /\ req.code # pre.bookingCode
    /\ Forbidden
    /\ Current(pre) = pre
    /\ RoomTimers(timers, pre.id) # {}

CodeSecrecy ==
    /\ \A r \in RoomsReturned : ~Has(r, "bookingCode")
    /\ (req.op \in {"book", "extend", "release"} /\ Has(resp.body, "bookingCode"))
          => /\ req.op = "book" /\ resp.status = 200
             /\ ~Booked(pre) \/ resp.at >= pre.endTime
             /\ Current(pre).bookingCode = resp.body.bookingCode

\* a listing was answered while a room holds a booking code
CodeSecrecyWitness ==
    /\ req.op = "list"
    /\ \E i \in 1..Len(store) :
          /\ Has(store[i], "bookingCode")
          /\ resp.body[i] = PublicRoom(store[i])

(********************************** C7 *************************************)
\* C7: a successful book at instant t for d minutes stores endTime
\* t + d * 60000, a successful extend by e minutes adds exactly e * 60000 to
\* the stored endTime, and no other step changes an endTime except by
\* clearing it; so a booking extended by e1..ek ends at t + (d + e1 + .. + ek) * 60000.
NoLostExtension ==
    [][\A i \in 1..Len(store) :
         LET old == store[i]
             new == store'[i]
             addressed == ParseInt(req'.id) = Int32(new.id) /\ resp'.status = 200
         IN  Has(new, "endTime") =>
               IF req'.op = "book" /\ addressed
               THEN new.endTime = now + Minutes(req') * 60000
               ELSE IF req'.op = "extend" /\ addressed
               THEN Has(old, "endTime")
                    /\ new.endTime = old.endTime + Minutes(req') * 60000
               ELSE Has(old, "endTime") /\ new.endTime = old.endTime]_vars

\* the second extend of a booking made at instant 0 for one minute
NoLostExtensionWitness ==
    /\ req.op = "extend" /\ resp.status = 200
    /\ Booked(pre) /\ pre.endTime = 2 * 60000
    /\ Minutes(req) = 1
    /\ Current(pre).endTime = (1 + 1 + 1) * 60000
    /\ resp.at = 0

(********************************** C8 *************************************)
\* C8: a list or getRoom response computed at time t (the handler's
\* Date.now()) reports no room as Occupied with endTime <= t; the rooms it
\* reports are the persisted ones and no persisted room has an endTime <= t:
\* the expired state is in the store when the response is made.
ReadsAreExpiryChecked ==
    req.op \in {"list", "getRoom"} =>
        /\ resp.at = now
        /\ \A r \in RoomsReturned :
              /\ r.status = "Occupied" => (Has(r, "endTime") /\ r.endTime > resp.at)
              /\ Delete(r, "qr") = sanitizeRoom(Current(r))
        /\ \A i \in 1..Len(store) :
              /\ Has(store[i], "endTime") => store[i].endTime > resp.at
              /\ req.op = "list" => resp.body[i] = PublicRoom(store[i])

\* a listing reports Available a room whose timer is due and has not fired
ReadsAreExpiryCheckedWitness ==
    /\ req.op = "list"
    /\ \E h \in timers :
          /\ h.fireAt <= resp.at
          /\ \E r \in RoomsReturned : r.id = h.roomId /\ r.status = "Available"

(********************************** C9 *************************************)
\* C9: a book request for a room that is Occupied with endTime in the future
\* answers Conflict "already booked" and leaves the room's record and timer
\* as they were; no step replaces the code, owner or purpose of a booking
\* whose endTime has not passed.
NoDoubleBooking ==
    [][/\ (req'.op = "book" /\ BookWellFormed(req') /\ Booked(pre') /\ now < pre'.endTime)
          => /\ resp'.status = 400
             /\ resp'.body = [message |-> "Room already booked"]
             /\ store'[Find(store', pre'.id)] = pre'
             /\ RoomTimers(timers', pre'.id) = RoomTimers(timers, pre'.id)
             /\ TableEntry(autoReleaseTimers', pre'.id) = TableEntry(autoReleaseTimers, pre'.id)
       /\ \A i \in 1..Len(store) :
             (Booked(store[i]) /\ now < store[i].endTime /\ Has(store'[i], "bookingCode"))
                => /\ store'[i].bookingCode = store[i].bookingCode
                   /\ store'[i].bookedBy = store[i].bookedBy
                   /\ store'[i].purpose = store[i].purpose]_vars

\* a well-formed book request met a live booking
NoDoubleBookingWitness ==
    /\ req.op = "book" /\ BookWellFormed(req)
    /\ Booked(pre) /\ resp.at < pre.endTime
    /\ Conflict("Room already booked")
    /\ Current(pre) = pre

(********************************** C10 ************************************)
\* the text is a decimal integer greater than zero: digits only, not all "0"
IsPositiveIntegerText(raw) ==
    /\ raw # <<>>
    /\ \A k \in 1..Len(raw) : IsDigit(raw[k])
    /\ \E k \in 1..Len(raw) : raw[k] # "0"

ValidationMessages ==
    {"Invalid roomId or duration", "Invalid studentName or purpose",
     "bookingCode required", "extraMinutes must be a positive integer"}

\* C10: a book or extend request whose minutes are zero, negative or not an
\* integer is rejected with a ValidationError, and the persisted rooms and the
\* timer table are as they were before the request.
BadMinutesRejected ==
    [][(req'.op \in {"book", "extend"} /\ ~IsPositiveIntegerText(req'.minutes))
       => /\ resp'.status = 400
          /\ resp'.body.message \in ValidationMessages
          /\ store' = store
          /\ timers' = timers
          /\ autoReleaseTimers' = autoReleaseTimers]_vars

(********************************** C11 ************************************)
\* C11: in every state at most one timer is armed per room, and a timer armed
\* for an Occupied room is due at that room's persisted endTime.
OneTimerPerRoom ==
    \A i \in 1..Len(store) :
        /\ Cardinality(RoomTimers(timers, store[i].id)) <= 1
        /\ Booked(store[i]) =>
              \A h \in RoomTimers(timers, store[i].id) : h.fireAt = store[i].endTime

(********************************** C12 ************************************)
\* the turn was a release that answered 200
Released == req.op = "release" /\ resp.status = 200

\* C12: after a successful release of a room no timer is armed for it, so no
\* callback armed for the released booking can still run.
ReleaseCancelsTimers ==
    Released => RoomTimers(timers, pre.id) = {}

\* every armed timer belongs to the current booking of its room
TimersOfCurrentBookings ==
    \A h \in timers :
        \E i \in 1..Len(store) :
            /\ store[i].id = h.roomId
            /\ Booked(store[i])
            /\ h.fireAt = store[i].endTime

(********************************** C13 ************************************)
\* C13: the timer table holds an entry only for rooms that are Occupied in
\* the store; lazy expiry that resets a room removes the room's entry.
TableOnlyOccupied ==
    \A id \in DOMAIN autoReleaseTimers :
        \E i \in 1..Len(store) : store[i].id = id /\ store[i].status = "Occupied"

(********************************** C14 ************************************)
\* the turn was a timer callback that found its room Occupied before endTime
RanEarly == req.op = "timer" /\ Booked(pre) /\ now < pre.endTime

\* the callback left the room as it was and armed a timer for its endTime
Rescheduled ==
    /\ Current(pre) = pre
    /\ \E h \in RoomTimers(timers, pre.id) : h.fireAt = pre.endTime

\* C14: a callback that finds its room Occupied with now < endTime does not
\* expire the room and arms a new timer for endTime, and when it returns that
\* timer is the room's entry in the timer table.
RescheduleKeepsEntry ==
    RanEarly =>
        /\ Rescheduled
        /\ TableEntry(autoReleaseTimers, pre.id) \subseteq RoomTimers(timers, pre.id)
        /\ TableEntry(autoReleaseTimers, pre.id) # {}

\* the part of C14 the callback keeps: no expiry, a new timer for endTime
RescheduleArmsTimer == RanEarly => Rescheduled

(********************************** C15 ************************************)
\* the room is persisted as Occupied with an endTime later than t
Live(room, t) == Booked(room) /\ room.endTime > t

\* C15: a process start leaves every room that was Occupied with endTime > now
\* as it was, with exactly one armed timer, due at its endTime and held by
\* the timer table; it makes every room that was Occupied with endTime <= now
\* Available; it leaves the other rooms alone and arms no timer for them.
StartReconciles ==
    [][req'.op = "start" =>
        \A i \in 1..Len(store) :
            LET id == store[i].id
            IN  IF Live(store[i], now)
                THEN /\ store'[i] = store[i]
                     /\ Cardinality(RoomTimers(timers', id)) = 1
                     /\ \A h \in RoomTimers(timers', id) : h.fireAt = store[i].endTime
                     /\ TableEntry(autoReleaseTimers', id) = RoomTimers(timers', id)
                ELSE /\ store'[i] = AvailableRoom(id)
                     /\ RoomTimers(timers', id) = {}
                     /\ TableEntry(autoReleaseTimers', id) = {}]_vars

\* the process has started with one room booked and its timer armed, after
\* the timers of the process before it were lost
StartReconcilesWitness ==
    /\ req.op = "start"
    /\ now > 0
    /\ \E i \in 1..Len(store) :
          /\ Live(store[i], now)
          /\ Cardinality(RoomTimers(timers, store[i].id)) = 1
    /\ \E i \in 1..Len(store) : store[i].status = "Available"

(********************************** C16 ************************************)
\* C16: every booking lapses: a room persisted as Occupied is eventually
\* persisted as Available, whether or not any request arrives and however
\* often the process starts again in between.
BookingsLapse ==
    \A i \in 1..Len(InitRooms) :
        (store[i].status = "Occupied") ~> (store[i].status = "Available")

\* a timer callback has made a lapsed booking Available; no request did it
BookingsLapseWitness ==
    /\ req.op = "timer"
    /\ Booked(pre) /\ now >= pre.endTime
    /\ Current(pre) = AvailableRoom(pre.id)
    /\ RoomTimers(timers, pre.id) = {}

(************************** store writes that fail *************************)
\* fs.writeFileSync(dataPath, text) opens the file with O_TRUNC and then
\* writes the text.  When it throws, the file is as it was (the open failed:
\* read-only medium, no permission) or it is cut short (the write failed: full
\* disk, I/O error).  JSON.parse rejects a cut file and readRooms answers [],
\* so a cut file is the store <<>>.
FailedWrite(rooms) == {rooms, <<>>}

\* the answer of Express to a handler that throws
Thrown(t) == Response(500, [message |-> "Internal Server Error"], t)

\* the handler got past its checks of the request's fields
Validated(r) == r.resp.status = 200 \/ r.resp.body.message \notin ValidationMessages

\* a handler that runs lazy expiry and then writes its own transition throws
\* at a store write: at lazy expiry's write when atExpiry, else at its own,
\* after lazy expiry has written the rooms it changed.  r is the handler's
\* result when every write succeeds.
HandlerThrows(r, atExpiry) ==
    LET rooms == expireRoomsIfNeeded(store, now)
    IN  /\ Idle
        /\ IF atExpiry THEN Validated(r) /\ rooms # store ELSE r.resp.status = 200
        /\ store' \in FailedWrite(IF atExpiry THEN store ELSE rooms)
        /\ resp' = Thrown(now)
        /\ UNCHANGED <<autoReleaseTimers, timers, now, running, readable>>

BookWriteFails(rawId, studentName, purpose, rawDuration, bookingCode, atExpiry) ==
    /\ HandlerThrows(BookResult(Machine, rawId, studentName, purpose, rawDuration,
                                bookingCode, now), atExpiry)
    /\ req' = Request("book", rawId, "", rawDuration, studentName, purpose)
    /\ pre' = Stored(ParseInt(rawId))

ExtendWriteFails(rawId, bookingCode, rawMinutes, atExpiry) ==
    /\ HandlerThrows(ExtendResult(Machine, rawId, bookingCode, rawMinutes, now), atExpiry)
    /\ req' = Request("extend", rawId, bookingCode, rawMinutes, NoValue, NoValue)
    /\ pre' = Stored(ParseInt(rawId))

\* release runs no lazy expiry: its only write is the one of the release
ReleaseWriteFails(rawId, bookingCode) ==
    /\ Idle
    /\ ReleaseResult(Machine, rawId, bookingCode, now).resp.status = 200
    /\ store' \in FailedWrite(store)
    /\ req' = Request("release", rawId, bookingCode, <<>>, NoValue, NoValue)
    /\ pre' = Stored(ParseInt(rawId))
    /\ resp' = Thrown(now)
    /\ UNCHANGED <<autoReleaseTimers, timers, now, running, readable>>

GetRoomWriteFails(rawId) ==
    /\ Idle
    /\ expireRoomsIfNeeded(store, now) # store
    /\ store' \in FailedWrite(store)
    /\ req' = Request("getRoom", rawId, "", <<>>, NoValue, NoValue)
    /\ pre' = Stored(ParseInt(rawId))
    /\ resp' = Thrown(now)
    /\ UNCHANGED <<autoReleaseTimers, timers, now, running, readable>>

\* the list handler catches what its body throws
ListRoomsWriteFails ==
    /\ Idle
    /\ expireRoomsIfNeeded(store, now) # store
    /\ store' \in FailedWrite(store)
    /\ req' = Request("list", <<>>, "", <<>>, NoValue, NoValue)
    /\ pre' = NoRoom
    /\ resp' = Response(500, [message |-> "Failed to load rooms"], now)
    /\ UNCHANGED <<autoReleaseTimers, timers, now, running, readable>>

\* an exception nobody catches ends the process: its timers and its timer
\* table are gone
Crash ==
    /\ running' = FALSE
    /\ timers' = {}
    /\ autoReleaseTimers' = NoTimers
    /\ resp' = NoResponse
    /\ UNCHANGED <<now, readable>>

\* the callback of handle h expires its room and the write throws; nothing
\* in the callback or around it catches
TimerWriteFails(h) ==
    /\ Idle
    /\ h \in timers
    /\ now >= h.fireAt
    /\ TimerCallback(Machine, h, now).rooms # store
    /\ store' \in FailedWrite(store)
    /\ req' = Internal("timer")
    /\ pre' = Stored(Int32(h.roomId))
    /\ Crash

\* the start-up block meets a booking that is due at room j of the list and
\* the write of scheduleAutoRelease's delay <= 0 branch throws, after the
\* block has handled the rooms before it
StartWriteFails(j) ==
    LET before == Reschedule([rooms |-> store, table |-> NoTimers, timers |-> {}],
                             SubSeq(store, 1, j - 1), 1, now)
    IN  /\ Idle \/ ~running
        /\ j \in 1..Len(store)
        /\ Booked(store[j]) /\ store[j].endTime <= now
        /\ store' \in FailedWrite(before.rooms)
        /\ req' = Internal("start")
        /\ pre' = store[j]
        /\ Crash

FailNext ==
    \/ TurnEnds
    \/ Tick
    \/ \E rawId \in KnownIds, d \in WholeMinutes :
          Book(rawId, SomeName, SomePurpose, d, "0a1b2c3d")
    \/ \E rawId \in KnownIds, c \in Codes : Release(rawId, c)
    \/ \E rawId \in KnownIds, c \in Codes, x \in WholeMinutes : Extend(rawId, c, x)
    \/ \E rawId \in KnownIds : GetRoom(rawId)
    \/ ListRooms
    \/ \E h \in timers : TimerFires(h)
    \/ Restart
    \/ \E rawId \in KnownIds, d \in WholeMinutes, atExpiry \in BOOLEAN :
          BookWriteFails(rawId, SomeName, SomePurpose, d, "0a1b2c3d", atExpiry)
    \/ \E rawId \in KnownIds, c \in Codes, x \in WholeMinutes, atExpiry \in BOOLEAN :
          ExtendWriteFails(rawId, c, x, atExpiry)
    \/ \E rawId \in KnownIds, c \in Codes : ReleaseWriteFails(rawId, c)
    \/ \E rawId \in KnownIds : GetRoomWriteFails(rawId)
    \/ ListRoomsWriteFails
    \/ \E h \in timers : TimerWriteFails(h)
    \/ \E j \in 1..Len(store) : StartWriteFails(j)

FailSpec == Init /\ [][FailNext]_vars

(********************************** C17 ************************************)
\* the step is a book, extend or release turn that met a failing store write
TransitionFailed == req'.op \in {"book", "extend", "release"} /\ resp'.status = 500

\* the step applies no transition: every persisted room is as it was or, if
\* its booking was due, has been expired; no timer is armed or cancelled
NothingApplied ==
    /\ timers' = timers
    /\ autoReleaseTimers' = autoReleaseTimers
    /\ Len(store') = Len(store)
    /\ \A i \in 1..Len(store) :
          \/ store'[i] = store[i]
          \/ /\ Booked(store[i]) /\ now >= store[i].endTime
             /\ store'[i] = AvailableRoom(store[i].id)

\* C17: when the store write of a book, extend or release request fails, the
\* persisted rooms keep the state they had before the transition, no timer
\* is armed or cancelled, and the answer is not a success.
FailedWriteAppliesNothing ==
    [][TransitionFailed => NothingApplied]_vars

\* the same, for the failures that leave the file as it was or cut short:
\* the file never holds the transition, the timers are never touched
FailedWriteNeverCommits ==
    [][TransitionFailed =>
          \/ NothingApplied
          \/ /\ store' = <<>>
             /\ timers' = timers
             /\ autoReleaseTimers' = autoReleaseTimers]_vars

(********************************** C18 ************************************)
\* C18: a store write that fails never ends the process, on any path that
\* writes.
ProcessStaysUp == running

\* the part of C18 that holds: a request handler that meets a failing write
\* answers 500 and the process goes on
HandlersSurviveFailedWrites ==
    (req.op \in {"book", "extend", "release", "getRoom", "list"}) => running

(********************************** C19 ************************************)
\* the step is a book, extend or release turn that addresses this room
Addresses(room) ==
    /\ req'.op \in {"book", "extend", "release"}
    /\ pre' # NoRoom
    /\ pre'.id = room.id

\* C19: no step loses an update: a step leaves every persisted room as the
\* step before it left it, except the room its book, extend or release
\* addresses and the rooms whose booking is due, which it expires.
NoLostUpdate ==
    [][/\ Len(store') = Len(store)
       /\ \A i \in 1..Len(store) :
             \/ store'[i] = store[i]
             \/ Addresses(store[i])
             \/ /\ Booked(store[i]) /\ now >= store[i].endTime
                /\ store'[i] = AvailableRoom(store[i].id)]_vars

\* a release was written while another room held a booking that is not due,
\* and that booking is still in the store
NoLostUpdateWitness ==
    /\ Released
    /\ \E i \in 1..Len(store) :
          /\ store[i].id # pre.id
          /\ Live(store[i], now)
          /\ RoomTimers(timers, store[i].id) # {}

(********************************** C20 ************************************)
\* the room's booking has reached its endTime
Due(room, t) == Booked(room) /\ t >= room.endTime

\* the step is a turn that runs lazy expiry: a list or getRoom request, or
\* a book or extend request that passes the checks of its fields
RunsLazyExpiry ==
    \/ req'.op \in {"list", "getRoom"}
    \/ /\ req'.op \in {"book", "extend"}
       /\ resp'.body.message \notin ValidationMessages

\* the step is a turn that runs an expiry path on room i of the store
RunsExpiryOn(i) ==
    \/ RunsLazyExpiry
    \/ req'.op = "start"
    \/ req'.op = "timer" /\ pre' # NoRoom /\ pre'.id = store[i].id

\* C20: the expiry paths agree.  Lazy expiry, the timer callback and the
\* start-up scheduling make a room Available when its booking is due, with
\* the same cleared record; a room whose booking is not due is made
\* Available by a successful release only, with that record as well.  (A
\* book request that finds the room's booking due expires it and books the
\* room anew in the same step.)
ExpiryPathsAgree ==
    [][\A i \in 1..Len(store) :
          /\ (Due(store[i], now) /\ RunsExpiryOn(i))
                => \/ store'[i] = AvailableRoom(store[i].id)
                   \/ /\ req'.op = "book" /\ resp'.status = 200
                      /\ pre'.id = store[i].id
                      /\ Live(store'[i], now)
          /\ (Booked(store[i]) /\ store'[i].status = "Available")
                => /\ store'[i] = AvailableRoom(store[i].id)
                   /\ \/ Due(store[i], now)
                      \/ /\ req'.op = "release" /\ resp'.status = 200
                         /\ pre'.id = store[i].id]_vars

\* lazy expiry of a list request has cleared a room whose callback, due as
\* well, has not run yet, while a callback that ran early had left a booking
\* that is not due in place
ExpiryPathsAgreeWitness ==
    /\ req.op = "list"
    /\ \E h \in timers :
          /\ h.fireAt <= now
          /\ store[Find(store, h.roomId)] = AvailableRoom(h.roomId)
    /\ \E h \in Orphans : Live(store[Find(store, h.roomId)], now)

(************************** store reads that fail **************************)
\* rooms.json stops being readable between two turns (the file is locked,
\* unreadable or does not parse for the reader) and its content stays on the
\* medium; every readRooms of a turn in that period takes the catch branch
StoreBreaks ==
    /\ Idle
    /\ readable
    /\ readable' = FALSE
    /\ UNCHANGED <<store, autoReleaseTimers, timers, now, running, req, pre, resp>>

\* the file can be read again
StoreRecovers ==
    /\ Idle
    /\ ~readable
    /\ readable' = TRUE
    /\ UNCHANGED <<store, autoReleaseTimers, timers, now, running, req, pre, resp>>

\* the handlers, the callbacks and the start of the process, with requests
\* that pass the handlers' checks, over a store that breaks and recovers
ReadNext ==
    \/ TurnEnds
    \/ Tick
    \/ \E rawId \in KnownIds, d \in WholeMinutes :
          Book(rawId, SomeName, SomePurpose, d, "0a1b2c3d")
    \/ \E rawId \in KnownIds, c \in Codes : Release(rawId, c)
    \/ \E rawId \in KnownIds, c \in Codes, x \in WholeMinutes : Extend(rawId, c, x)
    \/ \E rawId \in KnownIds : GetRoom(rawId)
    \/ ListRooms
    \/ \E h \in timers : TimerFires(h)
    \/ Restart
    \/ StoreBreaks
    \/ StoreRecovers

ReadSpec == Init /\ [][ReadNext]_vars

(********************************** C21 ************************************)
\* C21: while the store cannot be read no step changes the persisted rooms,
\* whether it is a request, a timer callback or the start of the process, so
\* the rooms are the same when the store is readable again; a book, extend
\* or release that passes its checks answers 404 "Room not found" and the
\* list answers 200 with no rooms.
NotFound(r) == r.status = 404 /\ r.body = [message |-> "Room not found"]

FailedReadDestroysNothing ==
    [][~readable =>
          /\ store' = store
          /\ (req'.op = "book" /\ BookWellFormed(req')) => NotFound(resp')
          /\ (req'.op = "extend" /\ ExtendWellFormed(req')) => NotFound(resp')
          /\ (req'.op = "release" /\ req'.code # "") => NotFound(resp')
          /\ req'.op = "list" => resp'.status = 200 /\ resp'.body = <<>>]_vars

\* a book request was answered 404 for a persisted room while the store
\* could not be read and another room held a live booking
FailedReadWitness ==
    /\ ~readable
    /\ req.op = "book" /\ resp.status = 404
    /\ pre # NoRoom
    /\ \E i \in 1..Len(store) : Live(store[i], now)

====
